---- MODULE Spec2Model ----
(***************************************************************************)
(* Log parsers (parse_ric3_log, parse_ic3ref_log) and the directory        *)
(* aggregators (parse_log_directories, parse_log_directory,                *)
(* load_solver_results) of the benchmark analysis scripts.                 *)
(*                                                                         *)
(* A log text is a sequence of lines.  A line is a record                  *)
(*   [k |-> kind, s |-> sequence of one-character strings / words,         *)
(*    n |-> integer]                                                       *)
(* standing for one line of text:                                          *)
(*   "result"   result: <s[1]>                                             *)
(*   "array"    [<s>]           s over digits, "," and " "                 *)
(*   "time"     time: <s>       followed by the letter s when n = 1        *)
(*   "elapsed"  Elapsed time: <s>   (followed by the letter s when n = 1)  *)
(*   "started"  Started at: ... hh:mm:ss <s[1]> ...   n = clock in seconds *)
(*   "finished" Finished at: ... hh:mm:ss <s[1]> ...  n = clock in seconds *)
(*   "K"        . K:   <s>      s a digit string                           *)
(*   "digit"    a line holding only the characters s                       *)
(*   "file"     File: ...                                                  *)
(*   "blank"    an empty line                                              *)
(*   "other"    any other line                                             *)
(* Times are kept in hundredths of a second (Sec(1) = 100).                *)
(***************************************************************************)
EXTENDS Integers, Sequences, FiniteSets, TLC

VARIABLES
    parser,      \* the parser variant in use ("ric3" or "ic3ref")
    file,        \* SpecParse: the log file handed to the parser
    ret,         \* SpecParse: what the call returned or raised, <<>> before it
    agg,         \* Spec: the script whose aggregator runs
    log_dirs,    \* Spec: the input list, each directory with its files
    results,     \* Spec: the result table, basename -> record
    di,          \* Spec: number of directories of log_dirs taken so far
    todo,        \* Spec: filenames of the current directory not yet enumerated
    pc,          \* Spec: "dirs" (outer loop), "files" (inner loop), "done"
    stats        \* SpecStats: the statistics main computed from the table

pvars == <<parser, file, ret>>
avars == <<agg, log_dirs, results, di, todo, pc, stats>>
vars == <<parser, file, ret, agg, log_dirs, results, di, todo, pc, stats>>

\* ---------------------------------------------------------------- bounds
MaxLines == 3
MaxDirs == 2
MaxFiles == 3

\* ------------------------------------------------------------- constants
TIMEOUT_SECONDS == 3600

Sec(n) == n * 100

\* ------------------------------------------------------- string helpers
Digits == {"0", "1", "2", "3", "4", "5", "6", "7", "8", "9"}

DigitVal(c) ==
    CASE c = "0" -> 0 [] c = "1" -> 1 [] c = "2" -> 2 [] c = "3" -> 3
      [] c = "4" -> 4 [] c = "5" -> 5 [] c = "6" -> 6 [] c = "7" -> 7
      [] c = "8" -> 8 [] c = "9" -> 9

IsSpace(c) == c = " "

\* str.strip(): leading and trailing whitespace removed
RECURSIVE LStrip(_)
LStrip(s) == IF s # <<>> /\ IsSpace(Head(s)) THEN LStrip(Tail(s)) ELSE s

RECURSIVE RStrip(_)
RStrip(s) ==
    IF s # <<>> /\ IsSpace(s[Len(s)]) THEN RStrip(SubSeq(s, 1, Len(s) - 1)) ELSE s

Strip(s) == RStrip(LStrip(s))

\* str.split(','): the pieces between the commas, empty pieces kept
RECURSIVE SplitComma(_, _)
SplitComma(s, cur) ==
    IF s = <<>> THEN <<cur>>
    ELSE IF Head(s) = "," THEN <<cur>> \o SplitComma(Tail(s), <<>>)
    ELSE SplitComma(Tail(s), Append(cur, Head(s)))

RECURSIVE DigitsValue(_, _)
DigitsValue(s, acc) ==
    IF s = <<>> THEN acc ELSE DigitsValue(Tail(s), acc * 10 + DigitVal(Head(s)))

AllDigits(s) == \A i \in 1..Len(s) : s[i] \in Digits

\* int(x): surrounding whitespace is accepted, anything else than digits raises
PyInt(x) ==
    LET t == Strip(x)
    IN  IF t # <<>> /\ AllDigits(t)
        THEN [ok |-> TRUE, v |-> DigitsValue(t, 0)]
        ELSE [ok |-> FALSE, v |-> 0]

DotCount(s) == Cardinality({i \in 1..Len(s) : s[i] = "."})

DotPos(s) == CHOOSE i \in 1..Len(s) : s[i] = "."

\* the first two fraction digits, as hundredths
Hundredths(f) ==
    (IF Len(f) >= 1 THEN 10 * DigitVal(f[1]) ELSE 0)
  + (IF Len(f) >= 2 THEN DigitVal(f[2]) ELSE 0)

\* float(x) for x over digits and dots: one dot at most and a digit at least,
\* else ValueError.  The value is in hundredths.
PyFloat(x) ==
    IF x = <<>> \/ DotCount(x) > 1 \/ DotCount(x) = Len(x)
    THEN [ok |-> FALSE, v |-> 0]
    ELSE IF DotCount(x) = 0
    THEN [ok |-> TRUE, v |-> Sec(DigitsValue(x, 0))]
    ELSE LET p == DotPos(x)
         IN  [ok |-> TRUE,
              v  |-> Sec(DigitsValue(SubSeq(x, 1, p - 1), 0))
                     + Hundredths(SubSeq(x, p + 1, Len(x)))]

\* str.lower() on the result words of the model
Lower(w) ==
    CASE w = "SAFE" -> "safe" [] w = "Safe" -> "safe"
      [] w = "UNSAFE" -> "unsafe" [] w = "Unsafe" -> "unsafe"
      [] OTHER -> w

\* datetime.strptime(s, "%a %b %d %H:%M:%S CST %Y"): the zone literal must be
\* CST and the clock a time of day; the value is the clock in seconds.
Strptime(line) ==
    IF line.s = <<"CST">> /\ line.n >= 0 /\ line.n < 86400
    THEN [ok |-> TRUE, v |-> line.n]
    ELSE [ok |-> FALSE, v |-> 0]

\* ------------------------------------------------------- regex searches
Min(S) == CHOOSE x \in S : \A y \in S : x <= y
Max(S) == CHOOSE x \in S : \A y \in S : x >= y

Raise(e) == <<"raise", e>>
IsRaise(r) == Len(r) = 2

\* ---------------------------------------------------------- variant A
\* re.search(r'result:\s*(\w+)', content, re.IGNORECASE) and the mapping
RIC3_result_type(content) ==
    LET IsResult(l) == l.k = "result"
        m == {i \in 1..Len(content) : IsResult(content[i])}
    IN  IF m = {} THEN "unknown"
        ELSE LET result_token == Lower(content[Min(m)].s[1])
             IN  IF result_token = "safe" THEN "proof"
                 ELSE IF result_token = "unsafe" THEN "counter-example"
                 ELSE "unknown"

\* an array search that takes the last bracketed list
RIC3_array_match_last(content) ==
    LET IsArray(l) == l.k = "array"
        m == {i \in 1..Len(content) : IsArray(content[i])}
    IN  IF m = {} THEN 0 ELSE Max(m)

\* an array search whose character class lets a dot through ([\d.,\s]*), so
\* that it is tried on the number of a time token as well
RIC3_array_match_loose(content) ==
    LET IsArray(l) == l.k \in {"array", "time"}
        m == {i \in 1..Len(content) : IsArray(content[i])}
    IN  IF m = {} THEN 0 ELSE Min(m)

\* re.search(r'\[[\d,\s]*\]', content): index of the first matching line, 0 if none
RIC3_array_match(content) ==
    LET IsArray(l) == l.k = "array"
        m == {i \in 1..Len(content) : IsArray(content[i])}
    IN  IF m = {} THEN 0 ELSE Min(m)

\* array_str.strip('[]').strip(), split(','), int() of every non-blank piece
RIC3_array_length(array_content) ==
    IF Strip(array_content) = <<>>
    THEN [ok |-> TRUE, v |-> 0]
    ELSE LET pieces == SplitComma(Strip(array_content), <<>>)
             kept   == {i \in 1..Len(pieces) : Strip(pieces[i]) # <<>>}
         IN  IF \A i \in kept : PyInt(pieces[i]).ok
             THEN [ok |-> TRUE, v |-> Cardinality(kept)]
             ELSE [ok |-> FALSE, v |-> 0]

\* a level that is the index of the top frame, one less than the length
RIC3_level_top(array_length) ==
    [ok |-> array_length.ok,
     v  |-> IF array_length.v = 0 THEN 0 ELSE array_length.v - 1]

\* level = 0 for the empty list (line 57), level = array_length otherwise (line 61)
RIC3_level(array_length) == array_length

\* a time search that takes the last token
RIC3_time_match_last(content) ==
    LET IsTime(l) == l.k \in {"time", "elapsed"} /\ l.n = 1 /\ l.s # <<>>
        m == {i \in 1..Len(content) : IsTime(content[i])}
    IN  IF m = {} THEN 0 ELSE Max(m)

\* re.search(r'time:\s*([\d.]+)s', content): also matches inside "Elapsed time:"
RIC3_time_match(content) ==
    LET IsTime(l) == l.k \in {"time", "elapsed"} /\ l.n = 1 /\ l.s # <<>>
        m == {i \in 1..Len(content) : IsTime(content[i])}
    IN  IF m = {} THEN 0 ELSE Min(m)

FirstOfKind(content, kind) ==
    LET IsKind(l) == l.k = kind
        m == {i \in 1..Len(content) : IsKind(content[i])}
    IN  IF m = {} THEN 0 ELSE Min(m)

\* the Started at / Finished at fallback of parse_ric3_log (lines 70-91)
RIC3_fallback(content, result_type) ==
    LET start_match  == FirstOfKind(content, "started")
        finish_match == FirstOfKind(content, "finished")
    IN  IF start_match # 0 /\ finish_match # 0
        THEN LET start_time  == Strptime(content[start_match])
                 finish_time == Strptime(content[finish_match])
             IN  IF start_time.ok /\ finish_time.ok
                 THEN [ret |-> FALSE, v |-> Sec(finish_time.v - start_time.v)]
                 ELSE [ret |-> TRUE, v |-> Sec(3600)]
        ELSE [ret |-> TRUE, v |-> Sec(3600)]

parse_ric3_log(f) ==
    IF f.st = "missing" THEN Raise("FileNotFoundError")
    ELSE IF f.st = "unreadable" THEN Raise("OSError")
    ELSE
    LET content     == f.content
        result_type == RIC3_result_type(content)
        array_match == RIC3_array_match(content)
    IN  IF array_match = 0 THEN <<Sec(3600), -1, result_type, -1>>
        ELSE
        LET array_length == RIC3_array_length(content[array_match].s)
            level        == RIC3_level(array_length)
            time_match   == RIC3_time_match(content)
        IN  IF ~array_length.ok THEN Raise("ValueError")
            ELSE IF time_match # 0
            THEN LET time_seconds == PyFloat(content[time_match].s)
                 IN  IF time_seconds.ok
                     THEN <<time_seconds.v, array_length.v, result_type, level.v>>
                     ELSE Raise("ValueError")
            ELSE LET fb == RIC3_fallback(content, result_type)
                 IN  IF fb.ret THEN <<Sec(3600), -1, result_type, -1>>
                     ELSE <<fb.v, array_length.v, result_type, level.v>>

\* ---------------------------------------------------------- variant B
\* an elapsed-time search without the test of the sign of the difference
_parse_elapsed_time_nosign(content) ==
    LET IsElapsed(l) == l.k = "elapsed" /\ l.s # <<>>
        elapsed_matches == {i \in 1..Len(content) : IsElapsed(content[i])}
        start_match  == FirstOfKind(content, "started")
        finish_match == FirstOfKind(content, "finished")
    IN  IF elapsed_matches # {}
        THEN PyFloat(content[Max(elapsed_matches)].s)
        ELSE IF start_match # 0 /\ finish_match # 0
        THEN LET start_time  == Strptime(content[start_match])
                 finish_time == Strptime(content[finish_match])
                 delta_seconds == Sec(finish_time.v - start_time.v)
             IN  IF start_time.ok /\ finish_time.ok
                 THEN [ok |-> TRUE, v |-> delta_seconds]
                 ELSE [ok |-> FALSE, v |-> 0]
        ELSE [ok |-> FALSE, v |-> 0]

\* an elapsed-time search that takes the first Elapsed time: token
_parse_elapsed_time_first(content) ==
    LET IsElapsed(l) == l.k = "elapsed" /\ l.s # <<>>
        elapsed_matches == {i \in 1..Len(content) : IsElapsed(content[i])}
        start_match  == FirstOfKind(content, "started")
        finish_match == FirstOfKind(content, "finished")
    IN  IF elapsed_matches # {}
        THEN PyFloat(content[Min(elapsed_matches)].s)
        ELSE IF start_match # 0 /\ finish_match # 0
        THEN LET start_time  == Strptime(content[start_match])
                 finish_time == Strptime(content[finish_match])
                 delta_seconds == Sec(finish_time.v - start_time.v)
             IN  IF start_time.ok /\ finish_time.ok /\ delta_seconds >= 0
                 THEN [ok |-> TRUE, v |-> delta_seconds]
                 ELSE [ok |-> FALSE, v |-> 0]
        ELSE [ok |-> FALSE, v |-> 0]

\* None is the record with ok = FALSE
_parse_elapsed_time(content) ==
    LET IsElapsed(l) == l.k = "elapsed" /\ l.s # <<>>
        elapsed_matches == {i \in 1..Len(content) : IsElapsed(content[i])}
        start_match  == FirstOfKind(content, "started")
        finish_match == FirstOfKind(content, "finished")
    IN  IF elapsed_matches # {}
        THEN PyFloat(content[Max(elapsed_matches)].s)
        ELSE IF start_match # 0 /\ finish_match # 0
        THEN LET start_time  == Strptime(content[start_match])
                 finish_time == Strptime(content[finish_match])
                 delta_seconds == Sec(finish_time.v - start_time.v)
             IN  IF start_time.ok /\ finish_time.ok /\ delta_seconds >= 0
                 THEN [ok |-> TRUE, v |-> delta_seconds]
                 ELSE [ok |-> FALSE, v |-> 0]
        ELSE [ok |-> FALSE, v |-> 0]

\* a depth search that takes the first K marker
_parse_array_length_first(content) ==
    LET IsK(l) == l.k = "K" /\ l.s # <<>> /\ AllDigits(l.s)
        k_matches == {i \in 1..Len(content) : IsK(content[i])}
    IN  IF k_matches # {} THEN DigitsValue(content[Min(k_matches)].s, 0) ELSE -1

\* re.findall(r'\.\s+K:\s+(\d+)', content), the last one
_parse_array_length(content) ==
    LET IsK(l) == l.k = "K" /\ l.s # <<>> /\ AllDigits(l.s)
        k_matches == {i \in 1..Len(content) : IsK(content[i])}
    IN  IF k_matches # {} THEN DigitsValue(content[Max(k_matches)].s, 0) ELSE -1

\* re.search(r'\n\s*([01])\s*\nFile:', content): a line holding 0 or 1 that is
\* not the first line of the text, then blank lines only, then a File: line
_parse_result_type(content) ==
    LET Hit(i) ==
            /\ i > 1
            /\ content[i].k = "digit"
            /\ content[i].s \in {<<"0">>, <<"1">>}
            /\ \E j \in (i + 1)..Len(content) :
                   /\ content[j].k = "file"
                   /\ \A b \in (i + 1)..(j - 1) : content[b].k = "blank"
        \* the match may start at any newline before the digit line when only
        \* blank lines lie between; the leftmost match decides
        result_match == {i \in 1..Len(content) : Hit(i)}
    IN  IF result_match = {} THEN "unknown"
        ELSE IF content[Min(result_match)].s = <<"0">> THEN "proof"
        ELSE "counter-example"

\* a parser that keeps the time of step 1 whatever the outcome is
parse_ic3ref_log_keep_time(f) ==
    IF f.st = "missing" THEN Raise("FileNotFoundError")
    ELSE IF f.st = "unreadable" THEN Raise("OSError")
    ELSE
    LET content      == f.content
        result_type  == _parse_result_type(content)
        array_length == _parse_array_length(content)
        time_seconds == _parse_elapsed_time(content)
    IN  IF ~time_seconds.ok
        THEN <<Sec(TIMEOUT_SECONDS), array_length, result_type>>
        ELSE <<time_seconds.v, array_length, result_type>>

parse_ic3ref_log(f) ==
    IF f.st = "missing" THEN Raise("FileNotFoundError")
    ELSE IF f.st = "unreadable" THEN Raise("OSError")
    ELSE
    LET content      == f.content
        result_type  == _parse_result_type(content)
        array_length == _parse_array_length(content)
        time_seconds == _parse_elapsed_time(content)
    IN  IF ~time_seconds.ok \/ result_type = "unknown"
        THEN <<Sec(TIMEOUT_SECONDS), array_length, result_type>>
        ELSE <<time_seconds.v, array_length, result_type>>

parser_func(p, f) == IF p = "ric3" THEN parse_ric3_log(f) ELSE parse_ic3ref_log(f)

\* ------------------------------------------------------------ log texts
Ln(kind, chars, num) == [k |-> kind, s |-> chars, n |-> num]

ResultLines == {Ln("result", <<w>>, 0) : w \in {"safe", "Unsafe", "error"}}

ArrayLines ==
    {Ln("array", c, 0) : c \in {<<>>, <<"7">>, <<"0", ",", " ", "1">>, <<"1", " ", "2">>}}

TimeLines ==
    {Ln("time", <<"5", ".", "0">>, 1), Ln("time", <<"1", ".", "2", ".", "3">>, 1),
     Ln("time", <<"7", ".", "5">>, 1), Ln("time", <<"7", ".", "5">>, 0)}

StartedLines ==
    {Ln("started", <<"CST">>, 100), Ln("started", <<"CST">>, 300),
     Ln("started", <<"UTC">>, 100)}

FinishedLines == {Ln("finished", <<"CST">>, 200), Ln("finished", <<"UTC">>, 200)}

ElapsedLines ==
    {Ln("elapsed", <<"4", "5", ".", "2">>, 0), Ln("elapsed", <<"1", "2", ".", "3", "4">>, 0),
     Ln("elapsed", <<"1", ".", "2", ".", "3">>, 0)}

KLines == {Ln("K", <<"3">>, 0), Ln("K", <<"1", "2">>, 0)}

DigitLines == {Ln("digit", <<d>>, 0) : d \in {"0", "1", "2"}}

FileLine == Ln("file", <<>>, 0)
BlankLine == Ln("blank", <<>>, 0)
OtherLine == Ln("other", <<>>, 0)

\* the lines a log of each solver family is made of
LinesA ==
    ResultLines \cup ArrayLines \cup TimeLines \cup StartedLines \cup FinishedLines
    \cup {OtherLine}

LinesB ==
    ElapsedLines \cup KLines \cup DigitLines \cup StartedLines \cup FinishedLines
    \cup {FileLine, BlankLine}

SeqsUpTo(S, n) == UNION {[1..m -> S] : m \in 0..n}

\* the logs of section 8 of the specification
Array7 == <<"0", ",", "0", ",", "0", ",", "1", ",", "2", ",", "3", ",", "9">>

ExampleA ==
    {<<OtherLine, Ln("array", Array7, 0), Ln("result", <<"safe">>, 0),
       Ln("time", <<"1", "2", ".", "3", "4">>, 1)>>,
     <<Ln("result", <<"safe">>, 0), Ln("time", <<"5", ".", "0">>, 1),
       Ln("array", <<"0", ",", "1">>, 0)>>}

ExampleB ==
    {<<Ln("elapsed", <<"1", "2", ".", "3", "4">>, 0), Ln("K", <<"3">>, 0),
       Ln("elapsed", <<"4", "5", ".", "2">>, 0), Ln("digit", <<"0">>, 0), FileLine>>,
     <<Ln("elapsed", <<"4", "5", ".", "2">>, 0), Ln("K", <<"3">>, 0), OtherLine, FileLine>>}

\* variant B logs with an intermediate and a final Elapsed time: report
ReportsB ==
    {<<e1, e2, d, FileLine>> : e1 \in ElapsedLines, e2 \in ElapsedLines, d \in DigitLines}

\* variant B logs with both timestamps, with and without an Elapsed time: report
StampedB ==
    {<<s, f, d, FileLine>> : s \in StartedLines, f \in FinishedLines, d \in DigitLines}
    \cup {<<e, s, f, d, FileLine>> :
              e \in ElapsedLines, s \in StartedLines, f \in FinishedLines, d \in DigitLines}

TextsA == SeqsUpTo(LinesA, MaxLines) \cup ExampleA
TextsB == SeqsUpTo(LinesB, MaxLines) \cup ExampleB \cup ReportsB \cup StampedB

Readable(text) == [st |-> "ok", content |-> text]
MissingFile == [st |-> "missing", content |-> <<>>]
UnreadableFile == [st |-> "unreadable", content |-> <<>>]

EmptyTable == [b \in {} |-> <<>>]
NoStats == <<>>

\* --------------------------------------------------- parser specification
InitParse ==
    /\ parser \in {"ric3", "ic3ref"}
    /\ file \in {Readable(t) : t \in IF parser = "ric3" THEN TextsA ELSE TextsB}
             \cup {MissingFile, UnreadableFile}
    /\ ret = <<>>
    /\ agg = "none"
    /\ log_dirs = <<>>
    /\ results = EmptyTable
    /\ di = 0
    /\ todo = {}
    /\ pc = "parse"
    /\ stats = NoStats

CallRic3 ==
    /\ pc = "parse"
    /\ parser = "ric3"
    /\ ret = <<>>
    /\ ret' = parse_ric3_log(file)
    /\ UNCHANGED <<parser, file>>
    /\ UNCHANGED avars

CallIc3ref ==
    /\ pc = "parse"
    /\ parser = "ic3ref"
    /\ ret = <<>>
    /\ ret' = parse_ic3ref_log(file)
    /\ UNCHANGED <<parser, file>>
    /\ UNCHANGED avars

NextParse == CallRic3 \/ CallIc3ref

SpecParse == InitParse /\ [][NextParse]_vars

\* ------------------------------------------------------------ filenames
\* A filename is a sequence of segments; "_log" followed by ".txt" is the
\* suffix _log.txt, and no other segment holds part of it.
NameA == <<"a", "_log", ".txt">>
NameB == <<"b", "_log", ".txt">>
NameAA == <<"a", "_log", ".txt", "_log", ".txt">>
NameN == <<"a", ".aig">>

\* filename.endswith('_log.txt'), and the glob pattern *_log.txt
EndsWithLogTxt(name) ==
    Len(name) >= 2 /\ name[Len(name) - 1] = "_log" /\ name[Len(name)] = ".txt"

\* filename.replace('_log.txt', ''): every occurrence is removed
RECURSIVE ReplaceLogTxt(_)
ReplaceLogTxt(name) ==
    IF name = <<>> THEN <<>>
    ELSE IF Len(name) >= 2 /\ name[1] = "_log" /\ name[2] = ".txt"
    THEN ReplaceLogTxt(SubSeq(name, 3, Len(name)))
    ELSE <<Head(name)>> \o ReplaceLogTxt(Tail(name))

IsExtension(seg) == seg \in {".txt", ".aig"}

\* Path.stem, then a trailing _log dropped
get_case_basename(log_file) ==
    LET name == IF log_file # <<>> /\ Len(log_file) > 1 /\ IsExtension(log_file[Len(log_file)])
                THEN SubSeq(log_file, 1, Len(log_file) - 1)
                ELSE log_file
    IN  IF name # <<>> /\ name[Len(name)] = "_log"
        THEN SubSeq(name, 1, Len(name) - 1)
        ELSE name

\* ---------------------------------------------------------- aggregators
\* The scripts whose aggregator is modelled.  generate_cactus_plot stands for
\* the identical parse_log_directories of analyze_family_combinations,
\* compare_solvers_by_family and generate_cactus_plot_by_family too;
\* compare_solvers for parse_log_directory (one directory);
\* extract_worse_cases_ic3ref for load_solver_results.
Aggregators ==
    {"generate_cactus_plot", "generate_par2_table", "compare_solvers_level",
     "compare_solvers", "extract_worse_cases_ic3ref"}

ParsersOf(a) ==
    IF a = "extract_worse_cases_ic3ref" THEN {"ic3ref"} ELSE {"ric3", "ic3ref"}

\* number of targets of the tuple assignment from parser_func(log_path)
UnpackArity(a) ==
    IF a \in {"generate_par2_table", "compare_solvers_level"} THEN 4 ELSE 3

\* the tuple stored in the table
StoredRecord(a, r) ==
    IF a = "compare_solvers_level" THEN r ELSE <<r[1], r[2], r[3]>>

Basename(a, filename) ==
    IF a = "extract_worse_cases_ic3ref"
    THEN get_case_basename(filename)
    ELSE ReplaceLogTxt(filename)

Put(table, b, rec) ==
    [k \in DOMAIN table \cup {b} |-> IF k = b THEN rec ELSE table[k]]

\* a fold that assigns results[basename] without the guard
Merge_overwrite(a, table, b, rec) == Put(table, b, rec)

\* a fold whose load_solver_results also replaces on an equal time
Merge_ties(a, table, b, rec) ==
    IF a = "compare_solvers" THEN Put(table, b, rec)
    ELSE IF a = "extract_worse_cases_ic3ref"
    THEN IF b \notin DOMAIN table \/ rec[1] <= table[b][1]
         THEN Put(table, b, rec) ELSE table
    ELSE IF b \notin DOMAIN table THEN Put(table, b, rec) ELSE table

\* the guarded assignment to results[basename]
Merge(a, table, b, rec) ==
    IF a = "compare_solvers" THEN Put(table, b, rec)
    ELSE IF a = "extract_worse_cases_ic3ref"
    THEN IF b \notin DOMAIN table \/ rec[1] < table[b][1]
         THEN Put(table, b, rec) ELSE table
    ELSE IF b \notin DOMAIN table THEN Put(table, b, rec) ELSE table

\* the try block raises: the parser raised, or the tuple assignment did
TryRaises(a, p, f) ==
    LET r == parser_func(p, f)
    IN  IsRaise(r) \/ Len(r) # UnpackArity(a)

\* ------------------------------------------------------------ directories
T1 ==
    <<Ln("result", <<"safe">>, 0), Ln("time", <<"5", ".", "0">>, 1),
      Ln("array", <<"0", ",", "1">>, 0)>>
T2 ==
    <<Ln("elapsed", <<"4", "5", ".", "2">>, 0), Ln("K", <<"3">>, 0),
      Ln("digit", <<"1">>, 0), FileLine>>
TNone == <<OtherLine>>
T4 == <<Ln("K", <<"1", "2">>, 0)>>

MissingDir == [exists |-> FALSE, files |-> EmptyTable]

FilesOfA == {Readable(T1), Readable(T2), Readable(T4), UnreadableFile}
FilesOfB == {Readable(TNone)}
FilesOfAA == {Readable(T2)}
FilesOfN == {Readable(TNone)}

Candidates(name) ==
    IF name = NameA THEN FilesOfA
    ELSE IF name = NameB THEN FilesOfB
    ELSE IF name = NameAA THEN FilesOfAA
    ELSE FilesOfN

FileNames == {NameA, NameB, NameAA, NameN}

Listings ==
    UNION {{fs \in [names -> UNION {Candidates(n) : n \in names}] :
               \A n \in names : fs[n] \in Candidates(n)} : names \in SUBSET FileNames}

Directories == {MissingDir} \cup {[exists |-> TRUE, files |-> fs] : fs \in Listings}

RECURSIVE TotalFiles(_)
TotalFiles(ds) ==
    IF ds = <<>> THEN 0 ELSE Cardinality(DOMAIN Head(ds).files) + TotalFiles(Tail(ds))

\* the directory lists of the model: MaxDirs directories, MaxFiles files in all
DirLists == {ds \in SeqsUpTo(Directories, MaxDirs) : TotalFiles(ds) <= MaxFiles}

\* ------------------------------------------------ aggregator specification
Init ==
    /\ agg \in Aggregators
    /\ parser \in ParsersOf(agg)
    /\ log_dirs \in IF agg = "compare_solvers"
                     THEN {ds \in DirLists : Len(ds) = 1}
                     ELSE DirLists
    /\ results = EmptyTable
    /\ di = 0
    /\ todo = {}
    /\ pc = "dirs"
    /\ stats = NoStats
    /\ file = MissingFile
    /\ ret = <<>>

\* a missing directory that ends the fold instead of being skipped
SkipMissingDir_return ==
    /\ pc = "dirs"
    /\ di < Len(log_dirs)
    /\ ~log_dirs[di + 1].exists
    /\ pc' = "done"
    /\ UNCHANGED <<stats, parser, file, ret, agg, log_dirs, results, di, todo>>

\* if not os.path.exists(log_dir): warning, continue (parse_log_directory: return)
SkipMissingDir ==
    /\ pc = "dirs"
    /\ di < Len(log_dirs)
    /\ ~log_dirs[di + 1].exists
    /\ di' = di + 1
    /\ pc' = IF agg = "compare_solvers" THEN "done" ELSE "dirs"
    /\ UNCHANGED <<stats, parser, file, ret, agg, log_dirs, results, todo>>

\* os.listdir(log_dir), or solver_dir.glob('*_log.txt')
ListDir ==
    /\ pc = "dirs"
    /\ di < Len(log_dirs)
    /\ log_dirs[di + 1].exists
    /\ di' = di + 1
    /\ todo' = IF agg = "extract_worse_cases_ic3ref"
               THEN {n \in DOMAIN log_dirs[di + 1].files : EndsWithLogTxt(n)}
               ELSE DOMAIN log_dirs[di + 1].files
    /\ pc' = "files"
    /\ UNCHANGED <<stats, parser, file, ret, agg, log_dirs, results>>

\* if not filename.endswith('_log.txt'): continue
SkipNonLog ==
    /\ pc = "files"
    /\ \E filename \in todo :
           /\ ~EndsWithLogTxt(filename)
           /\ todo' = todo \ {filename}
    /\ UNCHANGED <<stats, parser, file, ret, agg, log_dirs, results, di, pc>>

\* the try block ran to its end
StoreLog ==
    /\ pc = "files"
    /\ \E filename \in todo :
           LET f == log_dirs[di].files[filename]
           IN  /\ EndsWithLogTxt(filename)
               /\ ~TryRaises(agg, parser, f)
               /\ results' = Merge(agg, results, Basename(agg, filename),
                                   StoredRecord(agg, parser_func(parser, f)))
               /\ todo' = todo \ {filename}
    /\ UNCHANGED <<stats, parser, file, ret, agg, log_dirs, di, pc>>

\* an exception handler that stores the sentinel record, as the batch parsers do
ExceptLog_sentinel ==
    /\ pc = "files"
    /\ \E filename \in todo :
           LET f == log_dirs[di].files[filename]
           IN  /\ EndsWithLogTxt(filename)
               /\ TryRaises(agg, parser, f)
               /\ results' = Put(results, Basename(agg, filename),
                                 <<Sec(3600), -1, "unknown">>)
               /\ todo' = todo \ {filename}
    /\ UNCHANGED <<stats, parser, file, ret, agg, log_dirs, di, pc>>

\* except Exception: continue
ExceptLog ==
    /\ pc = "files"
    /\ \E filename \in todo :
           LET f == log_dirs[di].files[filename]
           IN  /\ EndsWithLogTxt(filename)
               /\ TryRaises(agg, parser, f)
               /\ todo' = todo \ {filename}
    /\ UNCHANGED <<stats, parser, file, ret, agg, log_dirs, results, di, pc>>

\* an inner loop that, once exhausted, lists the same directory again
EndDir_relist ==
    /\ pc = "files"
    /\ todo = {}
    /\ todo' = DOMAIN log_dirs[di].files
    /\ UNCHANGED <<stats, parser, file, ret, agg, log_dirs, results, di, pc>>

\* the inner loop is exhausted
EndDir ==
    /\ pc = "files"
    /\ todo = {}
    /\ pc' = "dirs"
    /\ UNCHANGED <<stats, parser, file, ret, agg, log_dirs, results, di, todo>>

\* return results
Return ==
    /\ pc = "dirs"
    /\ di = Len(log_dirs)
    /\ pc' = "done"
    /\ UNCHANGED <<stats, parser, file, ret, agg, log_dirs, results, di, todo>>

Next ==
    \/ SkipMissingDir
    \/ ListDir
    \/ SkipNonLog
    \/ StoreLog
    \/ ExceptLog
    \/ EndDir
    \/ Return

Spec == Init /\ [][Next]_vars

\* ================================================================ claims
\* the parse_log_directories functions (several directories, guarded insert)
ParseLogDirectories ==
    {"generate_cactus_plot", "generate_par2_table", "compare_solvers_level"}

Keys == {Basename(agg, n) : n \in {m \in FileNames : EndsWithLogTxt(m)}}

\* the readable log files of directory d whose benchmark name is b
LogsOf(d, b) ==
    IF d.exists
    THEN {n \in DOMAIN d.files :
              EndsWithLogTxt(n) /\ Basename(agg, n) = b /\ d.files[n].st = "ok"}
    ELSE {}

Holders(b) == {i \in 1..Len(log_dirs) : LogsOf(log_dirs[i], b) # {}}

\* C1: when parse_log_directories returns, every benchmark whose log is in
\* more than one directory of the list is in the table, with the record
\* parsed from the earliest directory of the list that holds its log.
C1_FirstDirectoryWins ==
    (pc = "done" /\ agg \in ParseLogDirectories) =>
        \A b \in Keys :
            Cardinality(Holders(b)) > 1 =>
                /\ b \in DOMAIN results
                /\ \E n \in LogsOf(log_dirs[Min(Holders(b))], b) :
                       results[b] = StoredRecord(agg,
                           parser_func(parser, log_dirs[Min(Holders(b))].files[n]))

\* C2 as stated: in parse_log_directories and load_solver_results no step of
\* the fold replaces the record of a key of the table or removes a key.
KeepsEveryRecord ==
    agg \in ParseLogDirectories \cup {"extract_worse_cases_ic3ref"} =>
        \A b \in DOMAIN results :
            b \in DOMAIN results' /\ results'[b] = results[b]

C2_NeverReplaced == [][KeepsEveryRecord]_vars

\* C2 amended: no step removes a key; parse_log_directories never replaces a
\* record; load_solver_results replaces one only by a record whose elapsed
\* time is strictly smaller.
KeepsOrTakesFaster ==
    agg \in ParseLogDirectories \cup {"extract_worse_cases_ic3ref"} =>
        \A b \in DOMAIN results :
            /\ b \in DOMAIN results'
            /\ \/ results'[b] = results[b]
               \/ /\ agg = "extract_worse_cases_ic3ref"
                  /\ results'[b][1] < results[b][1]

C2_ReplacedOnlyBySmallerTime == [][KeepsOrTakesFaster]_vars

\* a later directory offered another record for a stored key and the first
\* one stayed
C2_Witness ==
    /\ pc = "done"
    /\ Len(log_dirs) = 2
    /\ <<"a">> \in DOMAIN results
    /\ LogsOf(log_dirs[1], <<"a">>) = {NameA}
    /\ LogsOf(log_dirs[2], <<"a">>) = {NameA}
    /\ log_dirs[1].files[NameA] # log_dirs[2].files[NameA]
    /\ ~TryRaises(agg, parser, log_dirs[2].files[NameA])
    /\ results[<<"a">>] = StoredRecord(agg, parser_func(parser, log_dirs[1].files[NameA]))
    /\ results[<<"a">>] # StoredRecord(agg, parser_func(parser, log_dirs[2].files[NameA]))
    /\ agg \in ParseLogDirectories

\* load_solver_results took the faster record of the second directory
C2_WitnessLoad ==
    /\ pc = "done"
    /\ agg = "extract_worse_cases_ic3ref"
    /\ Len(log_dirs) = 2
    /\ LogsOf(log_dirs[1], <<"a">>) = {NameA}
    /\ LogsOf(log_dirs[2], <<"a">>) = {NameA}
    /\ parser_func(parser, log_dirs[2].files[NameA])[1]
           < parser_func(parser, log_dirs[1].files[NameA])[1]
    /\ results[<<"a">>] = parser_func(parser, log_dirs[2].files[NameA])

\* a step of the inner loop takes exactly one file from the listing and stays
\* in the directory; when the try block raises for that file, the table is
\* left as it was
FileStep ==
    (pc = "files" /\ todo # {}) =>
        \E filename \in todo :
            /\ todo' = todo \ {filename}
            /\ pc' = "files"
            /\ di' = di
            /\ log_dirs' = log_dirs
            /\ (EndsWithLogTxt(filename)
                   /\ TryRaises(agg, parser, log_dirs[di].files[filename]))
                => results' = results

\* every log file of an existing directory of the list whose try block does
\* not raise has its benchmark name in the table
EveryStorableLogStored ==
    \A i \in 1..Len(log_dirs) :
        log_dirs[i].exists =>
            \A n \in DOMAIN log_dirs[i].files :
                (EndsWithLogTxt(n) /\ ~TryRaises(agg, parser, log_dirs[i].files[n]))
                    => Basename(agg, n) \in DOMAIN results

\* C3: a log file whose parsing raises leaves the table as it was, the loop
\* goes on with the other files of the directory, and the fold returns only
\* after every directory of the list, with every log that does not raise stored.
C3_RaiseSkipsFile ==
    /\ [][FileStep]_vars
    /\ [](pc = "done" => (di = Len(log_dirs) /\ todo = {} /\ EveryStorableLogStored))

\* an unreadable log came first in the list; the other file of its directory
\* and the log of the next directory were stored all the same
C3_Witness ==
    /\ pc = "done"
    /\ Len(log_dirs) = 2
    /\ log_dirs[1].exists /\ log_dirs[2].exists
    /\ DOMAIN log_dirs[1].files = {NameA, NameB}
    /\ log_dirs[1].files[NameA] = UnreadableFile
    /\ DOMAIN log_dirs[2].files = {NameA}
    /\ DOMAIN results = {<<"a">>, <<"b">>}

\* C4: a missing directory is passed over with the table unchanged and the
\* fold goes on to the next directory; the fold ends only after the whole
\* list, and with an empty table when every directory is missing.
AtMissingDirectory ==
    /\ agg \in ParseLogDirectories
    /\ pc = "dirs"
    /\ di < Len(log_dirs)
    /\ ~log_dirs[di + 1].exists

MissingDirectoryStep ==
    AtMissingDirectory => (results' = results /\ di' = di + 1 /\ pc' = "dirs")

AllMissing == \A i \in 1..Len(log_dirs) : ~log_dirs[i].exists

C4_MissingDirectorySkipped ==
    /\ [][MissingDirectoryStep]_vars
    /\ []((pc = "done" /\ agg \in ParseLogDirectories) =>
              /\ di = Len(log_dirs)
              /\ AllMissing => results = EmptyTable
              /\ (\E i \in 1..Len(log_dirs) : ~log_dirs[i].exists) => EveryStorableLogStored)

\* the first directory is missing and the logs of the second are in the table
C4_Witness ==
    /\ pc = "done"
    /\ agg \in ParseLogDirectories
    /\ Len(log_dirs) = 2
    /\ ~log_dirs[1].exists
    /\ log_dirs[2].exists
    /\ DOMAIN log_dirs[2].files = {NameA, NameB}
    /\ DOMAIN results = {<<"a">>, <<"b">>}

\* C5: a parser call on a readable log file returns a record, whatever the text.
C5_ReadableNeverRaises ==
    (pc = "parse" /\ file.st = "ok" /\ ret # <<>>) => ~IsRaise(ret)

DirAB ==
    [exists |-> TRUE,
     files |-> (NameA :> Readable(T1)) @@ (NameB :> Readable(TNone))]

TableAB ==
    (<<"a">> :> <<Sec(5), 2, "proof">>) @@ (<<"b">> :> <<Sec(3600), -1, "unknown">>)

\* C6: aggregating the directory {a_log.txt, b_log.txt} of the end-to-end
\* scenario with the variant A parser yields {a: (5.0, 2, proof),
\* b: (3600, -1, unknown)}, and every readable log file of a listed directory
\* has an entry when generate_cactus_plot's aggregator returns.
C6_EndToEnd ==
    (pc = "done" /\ agg = "generate_cactus_plot" /\ parser = "ric3") =>
        /\ log_dirs = <<DirAB>> => results = TableAB
        /\ \A b \in Keys : Holders(b) # {} => b \in DOMAIN results

HasKind(content, kind) == \E i \in 1..Len(content) : content[i].k = kind

Parsed == pc = "parse" /\ file.st = "ok" /\ ret # <<>>

\* C7: variant A on a text without any bracketed list returns
\* (3600, -1, outcome of the result keyword, -1).
C7_NoArraySentinel ==
    (Parsed /\ parser = "ric3" /\ ~HasKind(file.content, "array")) =>
        ret = <<Sec(3600), -1, RIC3_result_type(file.content), -1>>

\* no list, yet a time token, both timestamps and a result keyword
C7_Witness ==
    /\ Parsed /\ parser = "ric3"
    /\ ~HasKind(file.content, "array")
    /\ \E i \in 1..Len(file.content) :
           file.content[i] = Ln("time", <<"5", ".", "0">>, 1)
    /\ HasKind(file.content, "result")
    /\ ret = <<Sec(3600), -1, "proof", -1>>

\* the lines that are a token time: <number>s
TimeTokens(content) ==
    {i \in 1..Len(content) :
         content[i].k \in {"time", "elapsed"} /\ content[i].n = 1 /\ content[i].s # <<>>}

Arrays(content) == {i \in 1..Len(content) : content[i].k = "array"}

\* a list [n0, n1, ..., nk] or []: integers between the commas
WellFormedList(s) ==
    \/ Strip(s) = <<>>
    \/ LET pieces == SplitComma(s, <<>>)
       IN  \A i \in 1..Len(pieces) : PyInt(pieces[i]).ok

ElementCount(s) ==
    IF Strip(s) = <<>> THEN 0
    ELSE Cardinality({i \in 1..Len(s) : s[i] = ","}) + 1

TimingRecoverable(content) ==
    IF TimeTokens(content) # {}
    THEN PyFloat(content[Min(TimeTokens(content))].s).ok
    ELSE /\ HasKind(content, "started") /\ HasKind(content, "finished")
         /\ Strptime(content[FirstOfKind(content, "started")]).ok
         /\ Strptime(content[FirstOfKind(content, "finished")]).ok

C10_TimestampFallback ==
    (/\ Parsed /\ parser = "ric3"
     /\ Arrays(file.content) # {}
     /\ WellFormedList(file.content[Min(Arrays(file.content))].s)
     /\ TimeTokens(file.content) = {})
    => LET c == file.content
           ok == /\ HasKind(c, "started") /\ HasKind(c, "finished")
                 /\ Strptime(c[FirstOfKind(c, "started")]).ok
                 /\ Strptime(c[FirstOfKind(c, "finished")]).ok
           delta == Strptime(c[FirstOfKind(c, "finished")]).v
                    - Strptime(c[FirstOfKind(c, "started")]).v
       IN  IF ok /\ delta >= 0
           THEN ~IsRaise(ret) /\ ret[1] = Sec(delta)
           ELSE ret = <<Sec(3600), -1, RIC3_result_type(c), -1>>

\* the lines that are a token result: <word> whose word, lower-cased, is w
ResultTokens(content, w) ==
    {i \in 1..Len(content) : content[i].k = "result" /\ Lower(content[i].s[1]) = w}

\* C11: variant A returns proof when the text holds a result token safe,
\* counter-example when it holds a result token unsafe (in any letter case) and
\* unknown when it holds neither, wherever the token stands among other
\* result: tokens.
C11_OutcomeFromKeyword ==
    (Parsed /\ parser = "ric3" /\ ~IsRaise(ret)) =>
        LET safe   == ResultTokens(file.content, "safe") # {}
            unsafe == ResultTokens(file.content, "unsafe") # {}
        IN  /\ (safe /\ ~unsafe) => ret[3] = "proof"
            /\ (unsafe /\ ~safe) => ret[3] = "counter-example"
            /\ (~safe /\ ~unsafe) => ret[3] = "unknown"

\* C12: every record variant A returns has four values, and the fourth
\* (level) equals the second (induction depth), the sentinel returns included.
C12_LevelIsDepth ==
    (Parsed /\ parser = "ric3" /\ ~IsRaise(ret)) =>
        (Len(ret) = 4 /\ ret[4] = ret[2])

\* a normal return with a list of two elements and the timestamp fallback
C12_Witness ==
    /\ Parsed /\ parser = "ric3"
    /\ file.content = <<Ln("started", <<"CST">>, 100), Ln("array", <<"0", ",", " ", "1">>, 0),
                        Ln("finished", <<"CST">>, 200)>>
    /\ ret = <<Sec(100), 2, "unknown", 2>>

\* the lines that are a token Elapsed time: <number>
ElapsedTokens(content) ==
    {i \in 1..Len(content) : content[i].k = "elapsed" /\ content[i].s # <<>>}

\* both timestamps are there, parse, and are not in reverse order
TimestampsUsable(content) ==
    /\ HasKind(content, "started") /\ HasKind(content, "finished")
    /\ Strptime(content[FirstOfKind(content, "started")]).ok
    /\ Strptime(content[FirstOfKind(content, "finished")]).ok
    /\ Strptime(content[FirstOfKind(content, "finished")]).v
         >= Strptime(content[FirstOfKind(content, "started")]).v

\* step 1 of variant B yields a time: the last Elapsed time: token is a float,
\* or there is no such token and the timestamps are usable
ElapsedDetermined(content) ==
    IF ElapsedTokens(content) # {}
    THEN PyFloat(content[Max(ElapsedTokens(content))].s).ok
    ELSE TimestampsUsable(content)

\* C13: variant B returns elapsed time 3600 whenever step 1 yields no time or
\* the outcome is unknown, also when the text holds a valid Elapsed time: value;
\* so every variant B record with outcome unknown has elapsed time 3600.
C13_UnknownForcesTimeout ==
    (Parsed /\ parser = "ic3ref") =>
        /\ ~IsRaise(ret)
        /\ (~ElapsedDetermined(file.content) \/ ret[3] = "unknown")
              => ret[1] = Sec(3600)

\* Elapsed time: 45.2 in a text without a status line before File:
C13_Witness ==
    /\ Parsed /\ parser = "ic3ref"
    /\ file.content = <<Ln("elapsed", <<"4", "5", ".", "2">>, 0), Ln("K", <<"3">>, 0),
                        OtherLine, FileLine>>
    /\ ret = <<Sec(3600), 3, "unknown">>

\* C14: variant B on a text with several Elapsed time: tokens, the last of
\* them a float, and a recognized outcome returns the value of the last token.
C14_LastElapsedToken ==
    (/\ Parsed /\ parser = "ic3ref"
     /\ Cardinality(ElapsedTokens(file.content)) >= 2
     /\ PyFloat(file.content[Max(ElapsedTokens(file.content))].s).ok
     /\ ~IsRaise(ret) /\ ret[3] # "unknown")
    => ret[1] = PyFloat(file.content[Max(ElapsedTokens(file.content))].s).v

\* an intermediate report of 12.34 and a final one of 45.2
C14_Witness ==
    /\ Parsed /\ parser = "ic3ref"
    /\ file.content = <<Ln("elapsed", <<"1", "2", ".", "3", "4">>, 0),
                        Ln("elapsed", <<"4", "5", ".", "2">>, 0),
                        Ln("digit", <<"1">>, 0), FileLine>>
    /\ ret = <<4520, -1, "counter-example">>

\* C15: variant B with a recognized outcome and no Elapsed time: token returns
\* Finished at minus Started at when both parse and the difference is not
\* negative, and 3600 otherwise; with an Elapsed time: token the timestamps
\* have no part in the result.
C15_TimestampsOnlyWithoutElapsed ==
    (Parsed /\ parser = "ic3ref" /\ ~IsRaise(ret) /\ ret[3] # "unknown") =>
        LET c == file.content
        IN  IF ElapsedTokens(c) = {}
            THEN IF TimestampsUsable(c)
                 THEN ret[1] = Sec(Strptime(c[FirstOfKind(c, "finished")]).v
                                   - Strptime(c[FirstOfKind(c, "started")]).v)
                 ELSE ret[1] = Sec(3600)
            ELSE IF PyFloat(c[Max(ElapsedTokens(c))].s).ok
                 THEN ret[1] = PyFloat(c[Max(ElapsedTokens(c))].s).v
                 ELSE ret[1] = Sec(3600)

\* timestamps in reverse order and a recognized outcome
C15_Witness ==
    /\ Parsed /\ parser = "ic3ref"
    /\ file.content = <<Ln("started", <<"CST">>, 300), Ln("finished", <<"CST">>, 200),
                        Ln("digit", <<"0">>, 0), FileLine>>
    /\ ret = <<Sec(3600), -1, "proof">>

\* the lines that are a depth marker . K: <int>
KMarkers(content) ==
    {i \in 1..Len(content) :
         content[i].k = "K" /\ content[i].s # <<>> /\ AllDigits(content[i].s)}

\* C16: variant B returns as induction depth the integer of the last
\* . K: <int> marker of the text and -1 when there is none, whatever the
\* outcome and the elapsed time are.
C16_DepthOfLastMarker ==
    (Parsed /\ parser = "ic3ref") =>
        /\ ~IsRaise(ret)
        /\ ret[2] = IF KMarkers(file.content) = {} THEN -1
                    ELSE DigitsValue(file.content[Max(KMarkers(file.content))].s, 0)

\* two markers in a text whose outcome is unknown and whose time is overridden
C16_Witness ==
    /\ Parsed /\ parser = "ic3ref"
    /\ file.content = <<Ln("K", <<"3">>, 0), Ln("elapsed", <<"4", "5", ".", "2">>, 0),
                        Ln("K", <<"1", "2">>, 0)>>
    /\ ret = <<Sec(3600), 12, "unknown">>

\* a line holding only the digit d stands right before a File: line
StatusBeforeFile(content, d) ==
    \E i \in 1..(Len(content) - 1) :
        content[i] = Ln("digit", <<d>>, 0) /\ content[i + 1].k = "file"

\* C17: variant B returns proof when a line holding only 0 stands right before
\* a File: line, counter-example when that digit is 1, and unknown when no
\* such digit line stands before a File: line.
C17_OutcomeFromStatusLine ==
    (Parsed /\ parser = "ic3ref" /\ ~IsRaise(ret)) =>
        LET zero == StatusBeforeFile(file.content, "0")
            one  == StatusBeforeFile(file.content, "1")
        IN  /\ (zero /\ ~one) => ret[3] = "proof"
            /\ (one /\ ~zero) => ret[3] = "counter-example"
            /\ (~zero /\ ~one) => ret[3] = "unknown"

\* C18: every record either variant returns has an elapsed time that is not
\* negative, an induction depth of at least -1 and an outcome among proof,
\* counter-example and unknown.
C18_RecordInDataModel ==
    (Parsed /\ ~IsRaise(ret)) =>
        /\ ret[1] >= 0
        /\ ret[2] >= -1
        /\ ret[3] \in {"proof", "counter-example", "unknown"}

\* the status lines of a variant B text, each with its File: line, and nothing else
RECURSIVE StatusMarker(_, _)
StatusMarker(content, i) ==
    IF i >= Len(content) THEN <<>>
    ELSE IF /\ content[i].k = "digit" /\ content[i].s \in {<<"0">>, <<"1">>}
            /\ content[i + 1].k = "file"
         THEN <<content[i], content[i + 1]>> \o StatusMarker(content, i + 2)
         ELSE StatusMarker(content, i + 1)

\* the text that holds the result marker of content and nothing else: the
\* result: tokens for variant A, the status lines before File: for variant B
ResultMarker(p, content) ==
    IF p = "ric3"
    THEN LET IsResult(l) == l.k = "result" IN SelectSeq(content, IsResult)
    ELSE StatusMarker(content, 1)

\* C19: the outcome either variant returns for a text is the outcome it
\* returns for the result marker of that text alone, whatever depth list, time
\* token and timestamps the text holds beside it.
C19_OutcomeOnlyFromMarker ==
    (Parsed /\ ~IsRaise(ret)) =>
        LET alone == parser_func(parser, Readable(ResultMarker(parser, file.content)))
        IN  ~IsRaise(alone) /\ alone[3] = ret[3]

\* the work the fold has left: the directories not yet taken with their
\* files, the files of the current directory not yet handled, and the loop exits
RECURSIVE WorkLeft(_, _)
WorkLeft(ds, i) ==
    IF i >= Len(ds) THEN 0
    ELSE Cardinality(DOMAIN ds[i + 1].files) + 2 + WorkLeft(ds, i + 1)

Measure ==
    WorkLeft(log_dirs, di) + Cardinality(todo)
    + (IF pc = "files" THEN 1 ELSE 0) + (IF pc = "done" THEN 0 ELSE 1)

\* a step takes the next directory of the list, and only when no file of the
\* current one is left; within a directory a step takes one file away and
\* never puts one back; every step uses up work
SequentialStep ==
    /\ di' \in {di, di + 1}
    /\ di' = di + 1 => (pc = "dirs" /\ todo = {})
    /\ di' = di => todo' \subseteq todo
    /\ (pc = "files" /\ todo # {}) => Cardinality(todo') = Cardinality(todo) - 1
    /\ Measure' < Measure
    /\ log_dirs' = log_dirs

\* a step can be taken: a loop step is enabled, or a log file is left in the
\* listing (the guard of StoreLog when its try block runs to the end, of
\* ExceptLog when it raises)
CanStep ==
    \/ ENABLED (SkipMissingDir \/ ListDir \/ SkipNonLog \/ EndDir \/ Return)
    \/ pc = "files" /\ \E filename \in todo : EndsWithLogTxt(filename)

\* C21: the fold visits the directories in list order, handles every file of
\* a directory before the next directory, handles each file of a directory
\* once, and always ends: every step uses up work and only the return stops it.
C21_SinglePassFold ==
    /\ [][SequentialStep]_vars
    /\ [](Measure >= 0)
    /\ [](pc # "done" => CanStep)
    /\ [](pc = "done" => (di = Len(log_dirs) /\ todo = {}))

\* parse_log_directories returned after two directories with files
C21_Witness ==
    /\ pc = "done"
    /\ agg = "generate_par2_table"
    /\ Len(log_dirs) = 2
    /\ log_dirs[1].exists /\ Cardinality(DOMAIN log_dirs[1].files) = 2
    /\ log_dirs[2].exists /\ Cardinality(DOMAIN log_dirs[2].files) = 1

LogSuffix == <<"_log", ".txt">>

\* C22: every benchmark name in the table is the name of a log file of a
\* directory already taken, without its trailing _log.txt: the name followed
\* by _log.txt is that filename.
C22_KeyIsNameWithoutSuffix ==
    \A b \in DOMAIN results :
        \E i \in 1..di :
            /\ log_dirs[i].exists
            /\ (b \o LogSuffix) \in DOMAIN log_dirs[i].files

\* ------------------------------------------------- PAR-2 statistics (main)
\* timeout = 3600 of main
timeout == 3600

\* most benchmarks in a result table of the statistics
MaxBench == 2

BenchNames == {<<"a">>, <<"b">>, <<"c">>, <<"d">>}

\* variant A logs: solved safe, solved unsafe, a list and a time without a
\* result line, no list at all, a result line alone, timestamps in reverse order
T3 == <<Ln("array", <<"0", ",", " ", "1">>, 0), Ln("time", <<"5", ".", "0">>, 1)>>
StatTexts ==
    {T1, T3, TNone, <<Ln("result", <<"safe">>, 0)>>,
     <<Ln("result", <<"Unsafe">>, 0), Ln("array", <<>>, 0), Ln("time", <<"7", ".", "5">>, 1)>>,
     <<Ln("array", <<>>, 0), Ln("started", <<"CST">>, 300), Ln("finished", <<"CST">>, 200)>>}

\* the records parse_log_directories of generate_par2_table stores for them
StatRecords ==
    {StoredRecord("generate_par2_table", parse_ric3_log(Readable(t))) : t \in StatTexts}

\* the tables parse_log_directories returns: any with parse_ric3_log, the
\* empty one with parse_ic3ref_log (its three values do not fit four targets)
Tables(p) ==
    IF p = "ric3"
    THEN UNION {[ks -> StatRecords] : ks \in {k \in SUBSET BenchNames : Cardinality(k) <= MaxBench}}
    ELSE {EmptyTable}

RECURSIVE SumOver(_, _)
SumOver(f, S) ==
    IF S = {} THEN 0
    ELSE LET x == CHOOSE y \in S : TRUE IN f[x] + SumOver(f, S \ {x})

\* np.mean: the sum and the number of values (nan when there is none)
Mean(f) == [sum |-> SumOver(f, DOMAIN f), n |-> Cardinality(DOMAIN f)]

\* a score that takes a time equal to the timeout as solved
calculate_par2_strict(times, t_out) ==
    Mean([b \in DOMAIN times |-> IF times[b] > t_out THEN 2 * t_out ELSE times[b]])

calculate_par2(times, t_out) ==
    LET adjusted_times ==
            [b \in DOMAIN times |-> IF times[b] >= t_out THEN 2 * t_out ELSE times[b]]
    IN  Mean(adjusted_times)

calculate_average_time(times) == Mean(times)

calculate_average_time_above_threshold(times, threshold) ==
    LET filtered_times == {b \in DOMAIN times : times[b] > threshold}
    IN  Mean([b \in filtered_times |-> times[b]])

InitStats ==
    /\ agg = "generate_par2_table"
    /\ parser \in ParsersOf(agg)
    /\ results \in Tables(parser)
    /\ log_dirs = <<>>
    /\ di = 0
    /\ todo = {}
    /\ pc = "done"
    /\ stats = NoStats
    /\ file = MissingFile
    /\ ret = <<>>

\* the overall statistics of one solver (main, lines 184-208)
Par2Stats ==
    /\ pc = "done"
    /\ agg = "generate_par2_table"
    /\ stats = NoStats
    /\ \E family_basenames \in SUBSET BenchNames :
           LET present   == family_basenames \cap DOMAIN results
               times_all == [b \in present |-> results[b][1]]
               solved    == {b \in present : times_all[b] < Sec(timeout)}
               safe_count ==
                   Cardinality({b \in present : results[b][1] < Sec(timeout)
                                                 /\ results[b][3] = "proof"})
               unsafe_count ==
                   Cardinality({b \in present : results[b][1] < Sec(timeout)
                                                 /\ results[b][3] = "counter-example"})
           IN  stats' = [family       |-> family_basenames,
                         solved       |-> Cardinality(solved),
                         safe         |-> safe_count,
                         unsafe       |-> unsafe_count,
                         all          |-> calculate_par2(times_all, Sec(timeout)),
                         avg_time     |-> calculate_average_time(times_all),
                         avg_time_100 |->
                             calculate_average_time_above_threshold(times_all, Sec(100))]
    /\ pc' = "stats"
    /\ UNCHANGED <<parser, file, ret, agg, log_dirs, results, di, todo>>

NextStats == Par2Stats

SpecStats == InitStats /\ [][NextStats]_vars

\* the benchmarks of the family that the table holds
Present == IF stats = NoStats THEN {} ELSE stats.family \cap DOMAIN results

\* C23: the solved count of the PAR-2 statistics counts no record with outcome
\* unknown and none with elapsed time 3600, and equals the safe count plus
\* the unsafe count.
C23_SolvedIsSafePlusUnsafe ==
    (pc = "stats") =>
        /\ stats.solved = stats.safe + stats.unsafe
        /\ stats.solved <= Cardinality({b \in Present : results[b][3] # "unknown"
                                                       /\ results[b][1] # Sec(3600)})

\* C24: the PAR-2 score is the mean over the instances of 2 * timeout for an
\* instance whose time is at least the timeout and of its own time otherwise.
C24_Par2Score ==
    (pc = "stats") =>
        LET unsolved == {b \in Present : results[b][1] >= Sec(3600)}
            own      == [b \in Present \ unsolved |-> results[b][1]]
        IN  /\ stats.all.n = Cardinality(Present)
            /\ stats.all.sum = SumOver(own, DOMAIN own) + Cardinality(unsolved) * 2 * Sec(3600)

\* one instance at the timeout exactly and one solved in 5 s
C24_Witness ==
    /\ pc = "stats"
    /\ Present = {<<"a">>, <<"b">>}
    /\ results[<<"a">>] = <<Sec(3600), -1, "unknown">>
    /\ results[<<"b">>] = <<500, 2, "proof">>
    /\ stats.all = [sum |-> Sec(7200) + 500, n |-> 2]

\* the scripts whose aggregator takes the parser as parser_func
TakesParserFunc ==
    {"generate_cactus_plot", "generate_par2_table", "compare_solvers_level", "compare_solvers"}

\* C25: with either parser variant, when an aggregator that takes a
\* parser_func returns, every readable log file of every existing directory of
\* the list has its benchmark name in the table.
C25_EitherParserFillsTable ==
    (pc = "done" /\ agg \in TakesParserFunc) =>
        \A i \in 1..Len(log_dirs) :
            log_dirs[i].exists =>
                \A n \in DOMAIN log_dirs[i].files :
                    (EndsWithLogTxt(n) /\ log_dirs[i].files[n].st = "ok")
                        => Basename(agg, n) \in DOMAIN results

\* a directory before the first one with a parseable log of b holds a log of b
\* whose parsing raises
RaisingBefore(b) ==
    \E i \in 1..(Min(Holders(b)) - 1) :
        /\ log_dirs[i].exists
        /\ \E n \in DOMAIN log_dirs[i].files :
               /\ EndsWithLogTxt(n)
               /\ Basename(agg, n) = b
               /\ IsRaise(parser_func(parser, log_dirs[i].files[n]))

\* C26: when the log of a benchmark raises in an earlier directory and a later
\* directory holds a parseable log of it, parse_log_directories returns a
\* table with the record of the first directory whose log parses.
C26_PrecedenceAmongParsedLogs ==
    (pc = "done" /\ agg \in ParseLogDirectories) =>
        \A b \in Keys :
            (Holders(b) # {} /\ RaisingBefore(b)) =>
                /\ b \in DOMAIN results
                /\ \E n \in LogsOf(log_dirs[Min(Holders(b))], b) :
                       results[b] = StoredRecord(agg,
                           parser_func(parser, log_dirs[Min(Holders(b))].files[n]))

\* the fold of one directory with its files taken in one fixed order
RECURSIVE FoldListing(_, _, _)
FoldListing(table, d, S) ==
    IF S = {} THEN table
    ELSE LET n == CHOOSE x \in S : TRUE
             f == d.files[n]
             t == IF EndsWithLogTxt(n) /\ ~TryRaises(agg, parser, f)
                  THEN Merge(agg, table, Basename(agg, n),
                             StoredRecord(agg, parser_func(parser, f)))
                  ELSE table
         IN  FoldListing(t, d, S \ {n})

\* the fold of a directory list, every directory enumerated in that fixed order
RECURSIVE FoldDirs(_, _)
FoldDirs(table, ds) ==
    IF ds = <<>> THEN table
    ELSE FoldDirs(IF Head(ds).exists
                  THEN FoldListing(table, Head(ds), DOMAIN Head(ds).files)
                  ELSE table,
                  Tail(ds))

\* C27: the table parse_log_directories returns is the same for every order
\* in which the files of a directory are enumerated: it is the table of the
\* fold that enumerates every directory in one fixed order.
C27_EnumerationOrderIrrelevant ==
    (pc = "done" /\ agg \in ParseLogDirectories) =>
        results = FoldDirs(EmptyTable, log_dirs)

\* the directories whose log of b parses, and the smallest time among them
ParsedTime(i, b) ==
    LET n == CHOOSE m \in LogsOf(log_dirs[i], b) : TRUE
    IN  parser_func(parser, log_dirs[i].files[n])[1]

SmallestTime(b) == Min({ParsedTime(i, b) : i \in Holders(b)})

\* C28: when load_solver_results returns, the record of each benchmark is the
\* record of the first directory of the list among those whose log of it has
\* the smallest elapsed time of all its parsed logs.
C28_SmallestTimeFirstKept ==
    (pc = "done" /\ agg = "extract_worse_cases_ic3ref") =>
        \A b \in Keys :
            IF Holders(b) = {} THEN b \notin DOMAIN results
            ELSE LET first == Min({i \in Holders(b) : ParsedTime(i, b) = SmallestTime(b)})
                     n     == CHOOSE m \in LogsOf(log_dirs[first], b) : TRUE
                 IN  /\ \A i \in Holders(b) : Cardinality(LogsOf(log_dirs[i], b)) = 1
                     /\ b \in DOMAIN results
                     /\ results[b] = parser_func(parser, log_dirs[first].files[n])

\* two directories whose logs of a have the same time and different depths
C28_Witness ==
    /\ pc = "done"
    /\ agg = "extract_worse_cases_ic3ref"
    /\ Len(log_dirs) = 2
    /\ LogsOf(log_dirs[1], <<"a">>) = {NameA}
    /\ LogsOf(log_dirs[2], <<"a">>) = {NameA}
    /\ log_dirs[1].files[NameA] = Readable(T1)
    /\ log_dirs[2].files[NameA] = Readable(T4)
    /\ results[<<"a">>] = <<Sec(3600), -1, "unknown">>

\* ------------------------------------------- batch parsers of the modules
\* parse_ric3_log_batch and parse_ic3ref_log_batch: one directory, the table
\* keyed by the filename
Batches == {"parse_ric3_log_batch", "parse_ic3ref_log_batch"}

ParserOfBatch(a) == IF a = "parse_ric3_log_batch" THEN "ric3" ELSE "ic3ref"

\* the record the except branch stores
BatchSentinel(a) ==
    IF a = "parse_ric3_log_batch"
    THEN <<Sec(3600), -1, "unknown", -1>>
    ELSE <<Sec(TIMEOUT_SECONDS), -1, "unknown">>

\* a variant A log whose list does not parse
TBad == <<Ln("array", <<"1", " ", "2">>, 0)>>

BatchFiles == {Readable(T1), Readable(T2), Readable(TBad), UnreadableFile}

BatchListings ==
    UNION {[names -> BatchFiles] :
               names \in {ns \in SUBSET FileNames : Cardinality(ns) <= MaxFiles}}

BatchDirectories ==
    {MissingDir} \cup {[exists |-> TRUE, files |-> fs] : fs \in BatchListings}

InitBatch ==
    /\ agg \in Batches
    /\ parser = ParserOfBatch(agg)
    /\ log_dirs \in {<<d>> : d \in BatchDirectories}
    /\ results = EmptyTable
    /\ di = 0
    /\ todo = {}
    /\ pc = "dirs"
    /\ stats = NoStats
    /\ file = MissingFile
    /\ ret = <<>>

\* a batch parser that returns the empty table for a missing directory
BatchMissingDir_empty ==
    /\ agg \in Batches
    /\ pc = "dirs"
    /\ di = 0
    /\ ~log_dirs[1].exists
    /\ di' = 1
    /\ pc' = "done"
    /\ UNCHANGED <<stats, parser, file, ret, agg, log_dirs, results, todo>>

\* if not os.path.exists(log_dir): raise FileNotFoundError
BatchMissingDir ==
    /\ agg \in Batches
    /\ pc = "dirs"
    /\ di = 0
    /\ ~log_dirs[1].exists
    /\ ret' = Raise("FileNotFoundError")
    /\ pc' = "raised"
    /\ UNCHANGED <<stats, parser, file, agg, log_dirs, results, di, todo>>

\* for filename in os.listdir(log_dir)
BatchListDir ==
    /\ agg \in Batches
    /\ pc = "dirs"
    /\ di = 0
    /\ log_dirs[1].exists
    /\ di' = 1
    /\ todo' = DOMAIN log_dirs[1].files
    /\ pc' = "files"
    /\ UNCHANGED <<stats, parser, file, ret, agg, log_dirs, results>>

\* a filename that does not end in _log.txt
BatchSkipNonLog ==
    /\ agg \in Batches
    /\ pc = "files"
    /\ \E filename \in todo :
           /\ ~EndsWithLogTxt(filename)
           /\ todo' = todo \ {filename}
    /\ UNCHANGED <<stats, parser, file, ret, agg, log_dirs, results, di, pc>>

\* results[filename] = the parsed tuple
BatchStore ==
    /\ agg \in Batches
    /\ pc = "files"
    /\ \E filename \in todo :
           LET r == parser_func(parser, log_dirs[di].files[filename])
           IN  /\ EndsWithLogTxt(filename)
               /\ ~IsRaise(r)
               /\ results' = Put(results, filename, r)
               /\ todo' = todo \ {filename}
    /\ UNCHANGED <<stats, parser, file, ret, agg, log_dirs, di, pc>>

\* an except branch that skips the file, as the aggregators do
BatchExcept_skip ==
    /\ agg \in Batches
    /\ pc = "files"
    /\ \E filename \in todo :
           LET r == parser_func(parser, log_dirs[di].files[filename])
           IN  /\ EndsWithLogTxt(filename)
               /\ IsRaise(r)
               /\ todo' = todo \ {filename}
    /\ UNCHANGED <<stats, parser, file, ret, agg, log_dirs, results, di, pc>>

\* except Exception: results[filename] = the sentinel record
BatchExcept ==
    /\ agg \in Batches
    /\ pc = "files"
    /\ \E filename \in todo :
           LET r == parser_func(parser, log_dirs[di].files[filename])
           IN  /\ EndsWithLogTxt(filename)
               /\ IsRaise(r)
               /\ results' = Put(results, filename, BatchSentinel(agg))
               /\ todo' = todo \ {filename}
    /\ UNCHANGED <<stats, parser, file, ret, agg, log_dirs, di, pc>>

\* return results
BatchReturn ==
    /\ agg \in Batches
    /\ pc = "files"
    /\ todo = {}
    /\ pc' = "done"
    /\ UNCHANGED <<stats, parser, file, ret, agg, log_dirs, results, di, todo>>

NextBatch ==
    \/ BatchMissingDir
    \/ BatchListDir
    \/ BatchSkipNonLog
    \/ BatchStore
    \/ BatchExcept
    \/ BatchReturn

\* the entry points of the two parser modules: a single log, or a directory
InitModules == InitParse \/ InitBatch

NextModules == NextParse \/ NextBatch

SpecModules == InitModules /\ [][NextModules]_vars

\* C29: a batch parser on an existing directory returns a table whose keys are
\* the full names of the files ending in _log.txt, each with its parsed record,
\* or with the sentinel record when its parse raises.
C29_BatchOneEntryPerLog ==
    (pc = "done" /\ agg \in Batches) =>
        /\ log_dirs[1].exists
        /\ DOMAIN results = {n \in DOMAIN log_dirs[1].files : EndsWithLogTxt(n)}
        /\ \A n \in DOMAIN results :
               LET r == parser_func(parser, log_dirs[1].files[n])
               IN  results[n] = IF IsRaise(r)
                                THEN (IF parser = "ric3"
                                      THEN <<Sec(3600), -1, "unknown", -1>>
                                      ELSE <<Sec(3600), -1, "unknown">>)
                                ELSE r

\* a log that cannot be read, a log that parses and a file that is no log
C29_Witness ==
    /\ pc = "done"
    /\ agg = "parse_ric3_log_batch"
    /\ DOMAIN log_dirs[1].files = {NameA, NameB, NameN}
    /\ log_dirs[1].files[NameA] = UnreadableFile
    /\ log_dirs[1].files[NameB] = Readable(T1)
    /\ DOMAIN results = {NameA, NameB}
    /\ results[NameA] = <<Sec(3600), -1, "unknown", -1>>
    /\ results[NameB] = <<500, 2, "proof", 2>>

\* C30: a parser called on a path that does not exist raises
\* FileNotFoundError and returns no record; a batch parser called on a
\* directory that does not exist raises FileNotFoundError with no entry
\* produced, and raises in no other case.
C30_MissingInputRaises ==
    /\ (pc = "parse" /\ file.st = "missing" /\ ret # <<>>)
          => ret = Raise("FileNotFoundError")
    /\ (agg \in Batches /\ ~log_dirs[1].exists)
          => /\ results = EmptyTable
             /\ pc \in {"dirs", "raised"}
    /\ (agg \in Batches /\ pc = "raised")
          => /\ ~log_dirs[1].exists
             /\ ret = Raise("FileNotFoundError")

\* parse_ic3ref_log_batch raised on a missing directory
C30_Witness ==
    /\ agg = "parse_ic3ref_log_batch"
    /\ pc = "raised"
    /\ ~log_dirs[1].exists
    /\ ret = Raise("FileNotFoundError")
    /\ results = EmptyTable

====
